---------------------------- MODULE Spec2Model ----------------------------
(***************************************************************************)
(* Bundle manager of the swupd client (src/src/bundle.c): bundle removal   *)
(* (remove_bundles, required_by, filter_files_to_delete) and the staged,   *)
(* two-phase bundle installation (add_subscriptions, install_bundles,      *)
(* track_installed).                                                       *)
(*                                                                         *)
(* Paths are numbered in strcmp order of their names:                      *)
(*   1 /usr/bin/d (directory)          2 /usr/bin/f1                       *)
(*   3 /usr/share/clear/bundles/A      4 /usr/share/clear/bundles/B        *)
(*   5 /usr/share/clear/bundles/C      6 /usr/share/clear/bundles/os-core  *)
(*   7 /usr/share/z                    8 /usr/share/zz                     *)
(*   9 /usr/share/zzz                                                      *)
(* A path of the target tree holds 0 (nothing), -1 (a directory) or the    *)
(* hash of the regular file stored there.                                  *)
(***************************************************************************)
EXTENDS Integers, Sequences, FiniteSets, TLC

VARIABLES
    mom,                \* the MoM: [edges: includes edges, optional: also-add edges,
                        \*           bare: the bundles that do not list os-core,
                        \*           f1: record of path 2 in A and B]
    disk,               \* target tree: final path -> 0 | -1 | hash
    side,               \* sidecars: path -> 0 | hash  (content of <path>.update)
    tracked,            \* tracking directory <state>/bundles: set of bundle names
    disk0,              \* target tree when the first operation started
    tracked0,           \* tracking directory when the first operation started
    pc,                 \* position of the running operation
    req,                \* the bundle list of the request
    force,              \* cmdline_option_force
    idx,                \* position of the running loop in its list
    total,              \* remove_bundles: total
    bad,                \* remove_bundles: bad
    ret_code,           \* remove_bundles: ret_code
    reasons,            \* per processed name of the request: the code it was rejected with, or "OK"
    submanifests,       \* current_mom->submanifests (bundle names, list order)
    bundles_to_remove,  \* remove_bundles: bundles_to_remove (bundle names, list order)
    files_to_remove,    \* remove_bundles: the file list handed to remove_files_from_fs
    broken,             \* bundles whose manifest cannot be loaded
    subs,               \* install: the subscription list (component names, list order)
    to_install_bundles, \* install_bundles: to_install_bundles (bundle names, list order)
    to_install_files,   \* install_bundles: to_install_files, each with its staging name set or not
    invalid_bundle_provided, \* install_bundles: invalid_bundle_provided
    mom_files,          \* install_bundles: mom->files, the consolidated files of the installed bundles
    trace,              \* staging and rename calls of the running install, in order
    halts,              \* where earlier runs of the install were halted, in order
    staged,             \* staging area: path -> 0 | content of <state>/staged/<hash of its record>
    telemetry,          \* telemetry records the running operation emitted, in order
    ops,                \* the operations started so far, in order, each with its outcome
    walk,               \* the add_subscriptions or required_by call that is followed step by
                        \* step: its arguments and, for required_by, the count it returned
    stack,              \* its call stack: one frame per level of recursion, innermost last
    sub_ret,            \* add_subscriptions: the bits returned so far by the levels that ended
    reqd_by,            \* required_by: the list *reqd_by
    skip_diskspace_check, \* globals.skip_diskspace_check
    fs_free             \* install_bundles: fs_free, the answer of get_available_space

removeVars == <<force, total, bad, reasons, submanifests, bundles_to_remove, files_to_remove>>

installVars == <<broken, subs, to_install_bundles, to_install_files, invalid_bundle_provided,
                 mom_files, trace, halts, staged>>

walkVars == <<walk, stack, sub_ret, reqd_by>>

spaceVars == <<skip_diskspace_check, fs_free>>

vars == <<mom, disk, side, tracked, disk0, tracked0, pc, req, idx, ret_code,
          removeVars, installVars, telemetry, ops, walkVars, spaceVars>>

-----------------------------------------------------------------------------
(* Bounds *)

\* longest bundle list of a request
MaxReq == 2

\* halts of an install before the run that completes
MaxHalts == 1

\* operations run one after the other on an image
MaxOps == 2

-----------------------------------------------------------------------------
(* The MoM and the manifests *)

\* bundles listed in the MoM
Bundles == {"os-core", "A", "B", "C"}

\* names a request may carry: the bundles of the MoM and a name absent from it
Names == Bundles \cup {"ZZZ"}

\* order of the system bundle directory listing
BundleOrder == <<"A", "B", "C", "os-core">>

\* includes edges a MoM of the model may carry (every choice is acyclic)
Edges == {<<"C", "A">>, <<"C", "B">>, <<"A", "B">>}

\* record of path 2 in a bundle manifest: none, a live file, or marked deleted
F1Status == {"absent", "live", "deleted"}

Range(s) == {s[i] : i \in 1..Len(s)}

File(filename, hash, is_deleted, is_dir, do_not_update, last_change) ==
    [filename |-> filename, hash |-> hash, is_deleted |-> is_deleted, is_dir |-> is_dir,
     do_not_update |-> do_not_update, last_change |-> last_change]

\* the record of path 2 in bundle b under MoM m (hash zero when deleted); bundle C
\* always ships it
F1Record(m, b) ==
    IF b = "C" THEN << File(2, 21, FALSE, FALSE, FALSE, 30) >>
    ELSE IF m.f1[b] = "absent" THEN <<>>
    ELSE IF m.f1[b] = "deleted" THEN
        << File(2, 0, TRUE, FALSE, FALSE, IF b = "A" THEN 10 ELSE 20) >>
    ELSE
        << File(2, 21, FALSE, FALSE, FALSE, IF b = "A" THEN 10 ELSE 20) >>

\* manifest->files of bundle b, ordered by path
ManifestFiles(m, b) ==
    IF b = "os-core" THEN
        << File(6, 60, FALSE, FALSE, FALSE, 10), File(7, 70, FALSE, FALSE, FALSE, 10) >>
    ELSE IF b = "A" THEN
        << File(1, 0, FALSE, TRUE, FALSE, 10) >> \o F1Record(m, "A") \o
        << File(3, 30, FALSE, FALSE, FALSE, 10), File(7, 70, FALSE, FALSE, FALSE, 10),
           File(8, 80, FALSE, FALSE, FALSE, 10) >>
    ELSE IF b = "B" THEN
        F1Record(m, "B") \o
        << File(4, 40, FALSE, FALSE, FALSE, 20), File(9, 90, FALSE, FALSE, TRUE, 20) >>
    ELSE IF b = "C" THEN
        F1Record(m, "C") \o << File(5, 50, FALSE, FALSE, FALSE, 30) >>
    ELSE <<>>

\* manifest->includes of bundle b
ManifestIncludes(m, b) ==
    IF b = "os-core" \/ b \in m.bare
    THEN SelectSeq(BundleOrder, LAMBDA x : <<b, x>> \in m.edges)
    ELSE SelectSeq(BundleOrder, LAMBDA x : <<b, x>> \in m.edges) \o << "os-core" >>

\* the path of <prefix>/usr/share/clear/bundles/<name>; 0 for a name no manifest ships
MarkerPath(name) ==
    IF name = "A" THEN 3 ELSE IF name = "B" THEN 4 ELSE IF name = "C" THEN 5
    ELSE IF name = "os-core" THEN 6 ELSE 0

AllPaths == 1..9

\* search_bundle_in_manifest: is the name listed in the MoM
search_bundle_in_manifest(name) == name \in Bundles

\* is_installed_bundle that also takes the sidecar of the marker for the marker
is_installed_bundle_or_sidecar(d, name) ==
    MarkerPath(name) # 0 /\ (d[MarkerPath(name)] # 0 \/ side[MarkerPath(name)] # 0)

\* is_installed_bundle: stat of <prefix>/usr/share/clear/bundles/<name> succeeds
is_installed_bundle(d, name) == MarkerPath(name) # 0 /\ d[MarkerPath(name)] # 0

\* read_subscriptions + recurse_manifest: the manifests of the bundles present in the
\* system bundle directory
installed_manifests(d) == SelectSeq(BundleOrder, LAMBDA b : is_installed_bundle(d, b))

-----------------------------------------------------------------------------
(* File consolidation *)

RECURSIVE files_from_bundles(_, _)
\* concatenation of the file lists of a list of manifests
files_from_bundles(m, bundles) ==
    IF bundles = <<>> THEN <<>>
    ELSE ManifestFiles(m, Head(bundles)) \o files_from_bundles(m, Tail(bundles))

\* among the records of one path: a live record wins over a deleted one, then the
\* higher last_change wins, then the earlier record
Winner(recs) ==
    LET live == SelectSeq(recs, LAMBDA f : ~f.is_deleted)
        pool == IF live # <<>> THEN live ELSE recs
        best == CHOOSE i \in 1..Len(pool) :
                    /\ \A j \in 1..Len(pool) : pool[j].last_change <= pool[i].last_change
                    /\ \A j \in 1..(i - 1) : pool[j].last_change < pool[i].last_change
    IN pool[best]

RECURSIVE consolidate_from(_, _)
consolidate_from(files, p) ==
    IF p \notin AllPaths THEN <<>>
    ELSE LET recs == SelectSeq(files, LAMBDA f : f.filename = p)
         IN (IF recs = <<>> THEN <<>> ELSE << Winner(recs) >>) \o consolidate_from(files, p + 1)

\* consolidate_files_from_bundles: one record per path, ordered by path
consolidate_files_from_bundles(m, bundles) ==
    consolidate_from(files_from_bundles(m, bundles), 1)

\* filter_files_to_delete reporting a match whenever the names are equal, also when
\* B is marked deleted
filter_files_to_delete_B_deleted_match(A, B) ==
    IF A.is_deleted THEN 0
    ELSE IF A.filename < B.filename THEN -1
    ELSE IF A.filename > B.filename THEN 1
    ELSE 0

\* filter_files_to_delete reporting no match for a live record of the kept list
filter_files_to_delete_B_live_nomatch(A, B) ==
    IF A.is_deleted THEN 0
    ELSE IF A.filename < B.filename THEN -1
    ELSE IF A.filename > B.filename THEN 1
    ELSE -1

\* filter_files_to_delete: 0 (a match) removes A from the list of files to delete
filter_files_to_delete(A, B) ==
    IF A.is_deleted THEN 0
    ELSE IF A.filename < B.filename THEN -1
    ELSE IF A.filename > B.filename THEN 1
    ELSE IF ~B.is_deleted THEN 0
    ELSE -1

RECURSIVE list_filter_common_elements(_, _)
\* walk of two sorted lists that drops from list1 every element matching the current
\* element of list2
list_filter_common_elements(list1, list2) ==
    IF list1 = <<>> \/ list2 = <<>> THEN list1
    ELSE LET comp == filter_files_to_delete(Head(list1), Head(list2))
         IN IF comp = 0 THEN list_filter_common_elements(Tail(list1), list2)
            ELSE IF comp < 0 THEN << Head(list1) >> \o list_filter_common_elements(Tail(list1), list2)
            ELSE list_filter_common_elements(list1, Tail(list2))

-----------------------------------------------------------------------------
(* Reverse dependencies *)

RECURSIVE list_str_deduplicate(_)
\* every name once
list_str_deduplicate(l) ==
    IF l = <<>> THEN <<>>
    ELSE << Head(l) >> \o list_str_deduplicate(SelectSeq(Tail(l), LAMBDA x : x # Head(l)))

RECURSIVE required_by_bundles(_, _, _, _, _)
RECURSIVE required_by_includes(_, _, _, _, _, _)

\* the loop of required_by over mom->submanifests, from position k
required_by_bundles(m, bundle_name, subm, k, exclusions) ==
    IF k > Len(subm) THEN <<>>
    ELSE (IF subm[k] = bundle_name THEN <<>>
          ELSE required_by_includes(m, bundle_name, subm[k], 1, subm, exclusions))
         \o required_by_bundles(m, bundle_name, subm, k + 1, exclusions)

\* the loop of required_by over bundle->includes, from position j
required_by_includes(m, bundle_name, bundle, j, subm, exclusions) ==
    LET incs == ManifestIncludes(m, bundle) IN
    IF j > Len(incs) THEN <<>>
    ELSE (IF incs[j] = bundle_name
          THEN (IF bundle \notin Range(exclusions) THEN << bundle >> ELSE <<>>)
               \o required_by_bundles(m, bundle, subm, 1, exclusions)
          ELSE <<>>)
         \o required_by_includes(m, bundle_name, bundle, j + 1, subm, exclusions)

\* required_by without the walk into the bundles that include a dependent
required_by_direct(m, bundle_name, subm, exclusions) ==
    SelectSeq(subm, LAMBDA b : /\ b # bundle_name
                               /\ bundle_name \in Range(ManifestIncludes(m, b))
                               /\ b \notin Range(exclusions))

\* required_by that looks the other way: the bundles that bundle_name includes
required_by_included(m, bundle_name, subm, exclusions) ==
    SelectSeq(subm, LAMBDA b : /\ b # bundle_name
                               /\ b \in Range(ManifestIncludes(m, bundle_name))
                               /\ b \notin Range(exclusions))

\* required_by at recursion 0: the deduplicated list of bundles that include bundle_name
required_by(m, bundle_name, subm, exclusions) ==
    list_str_deduplicate(required_by_bundles(m, bundle_name, subm, 1, exclusions))

\* list_move_item: the list without its first item named name
list_remove_first(l, name) ==
    IF name \notin Range(l) THEN l
    ELSE LET k == CHOOSE i \in 1..Len(l) : l[i] = name /\ \A j \in 1..(i - 1) : l[j] # name
         IN SubSeq(l, 1, k - 1) \o SubSeq(l, k + 1, Len(l))

\* list_move_items that moves the bundle of the request and leaves its dependents
list_move_items_bundle_only(deps, from, to) ==
    IF deps = <<>> \/ deps[Len(deps)] \notin Range(from) THEN <<from, to>>
    ELSE <<list_remove_first(from, deps[Len(deps)]), to \o << deps[Len(deps)] >> >>

RECURSIVE list_move_items(_, _, _)
\* list_move_item for each name of deps in turn: <<from, to>> after the moves
list_move_items(deps, from, to) ==
    IF deps = <<>> THEN <<from, to>>
    ELSE IF Head(deps) \in Range(from)
         THEN list_move_items(Tail(deps), list_remove_first(from, Head(deps)), to \o << Head(deps) >>)
         ELSE list_move_items(Tail(deps), from, to)

-----------------------------------------------------------------------------
(* States an image can be in before an operation starts *)

\* the MoMs of the model: any set of the includes edges, any record of path 2 in the
\* manifests of A and B
MoMs == [edges : SUBSET Edges, f1 : [{"A", "B"} -> F1Status], optional : {{}}, bare : {{}}]

\* sets of installed bundles: os-core and, with a bundle, what it includes
ClosedSets(m) ==
    {S \in SUBSET Bundles :
        "os-core" \in S /\ \A b \in S : Range(ManifestIncludes(m, b)) \subseteq S}

\* what a file record puts at its final path
Content(f) == IF f.is_dir THEN -1 ELSE f.hash

\* target tree of an image built from the bundles S
InstalledDisk(m, S) ==
    LET view == consolidate_files_from_bundles(m, SelectSeq(BundleOrder, LAMBDA b : b \in S))
    IN [p \in AllPaths |->
          IF \E i \in 1..Len(view) : view[i].filename = p /\ ~view[i].is_deleted
          THEN Content(view[CHOOSE i \in 1..Len(view) : view[i].filename = p])
          ELSE 0]

\* request lists of at most n names
Requests(n) == UNION {[1..k -> Names] : k \in 1..n}

\* no add_subscriptions or required_by call is traced
NoWalk == [fn |-> "none"]

\* the staging area with no file in it
NothingStaged == [p \in AllPaths |-> 0]

\* no operation is running and no call is traced
InitIdle ==
    /\ side = [p \in AllPaths |-> 0]
    /\ pc = "idle"
    /\ req = <<>>
    /\ force = FALSE
    /\ idx = 0
    /\ total = 0
    /\ bad = 0
    /\ ret_code = "OK"
    /\ reasons = <<>>
    /\ submanifests = <<>>
    /\ bundles_to_remove = <<>>
    /\ files_to_remove = <<>>
    /\ to_install_bundles = <<>>
    /\ to_install_files = <<>>
    /\ invalid_bundle_provided = FALSE
    /\ mom_files = <<>>
    /\ trace = <<>>
    /\ halts = <<>>
    /\ telemetry = <<>>
    /\ ops = <<>>
    /\ walk = NoWalk
    /\ stack = <<>>
    /\ sub_ret = {}
    /\ reqd_by = <<>>
    /\ skip_diskspace_check = FALSE
    /\ fs_free = 0

InitCommon ==
    /\ mom \in MoMs
    /\ \E S \in ClosedSets(mom) :
          /\ disk = InstalledDisk(mom, S)
          /\ tracked \in {{}, S}
    /\ disk0 = disk
    /\ tracked0 = tracked
    /\ broken = {}
    /\ subs = <<>>
    /\ InitIdle

-----------------------------------------------------------------------------
(* remove_bundles *)

\* outcomes of swupd_init, get_current_version, load_mom and recurse_manifest
RemoveEnvCodes == {"OK", "InitError", "CurrentVersionUnknown", "CouldntLoadMoM", "RecurseManifest"}

\* a telemetry record
Telemetry(op, bundles, result) == [op |-> op, bundles |-> bundles, result |-> result]

\* the record of an operation that starts on the target tree as it is
Started(op, request, f) ==
    [op |-> op, req |-> request, force |-> f, before |-> disk, ret |-> "running",
     after |-> disk, removed |-> <<>>]

\* what remove_bundles emits at the label out_deinit, which the failures after
\* swupd_init jump to; the return after the loop emits nothing
remove_telemetry(env, request) ==
    IF env \in {"OK", "InitError"} THEN <<>>
    ELSE << Telemetry("bundleremove", request, env) >>

\* remove_bundles up to the loop over the request: initialization and loading of the
\* MoM and of the manifests of the installed bundles
RemoveBegin(requests, envs) ==
    /\ pc = "idle"
    /\ \E request \in requests, f \in BOOLEAN, env \in envs :
          /\ req' = request
          /\ force' = f
          /\ telemetry' = remove_telemetry(env, request)
          /\ ops' = Append(ops, Started("remove", request, f))
          /\ IF env = "OK"
             THEN /\ pc' = "remove_loop"
                  /\ submanifests' = installed_manifests(disk)
                  /\ ret_code' = "OK"
             ELSE /\ pc' = "aborted"
                  /\ submanifests' = <<>>
                  /\ ret_code' = env
    /\ idx' = 1
    /\ total' = 0
    /\ bad' = 0
    /\ reasons' = <<>>
    /\ bundles_to_remove' = <<>>
    /\ files_to_remove' = <<>>
    /\ UNCHANGED <<mom, spaceVars, disk, side, tracked, disk0, tracked0, installVars, walkVars>>

\* the checks of a name of the request without the test that the bundle is installed
remove_check_any_listed(m, d, bundle, subm, request, f) ==
    IF bundle = "os-core" THEN "RequiredBundleError"
    ELSE IF ~search_bundle_in_manifest(bundle) THEN "InvalidBundle"
    ELSE IF Len(required_by(m, bundle, subm, request)) > 0 /\ ~f THEN "RequiredBundleError"
    ELSE "OK"

\* the checks of a name of the request with the dependents looked up without exclusions
remove_check_no_exclusions(m, d, bundle, subm, request, f) ==
    IF bundle = "os-core" THEN "RequiredBundleError"
    ELSE IF ~search_bundle_in_manifest(bundle) THEN "InvalidBundle"
    ELSE IF ~is_installed_bundle(d, bundle) THEN "BundleNotTracked"
    ELSE IF Len(required_by(m, bundle, subm, <<>>)) > 0 /\ ~f THEN "RequiredBundleError"
    ELSE "OK"

\* the code a name of the request is rejected with, "OK" when it is accepted
remove_check(m, d, bundle, subm, request, f) ==
    IF bundle = "os-core" THEN "RequiredBundleError"
    ELSE IF ~search_bundle_in_manifest(bundle) THEN "InvalidBundle"
    ELSE IF ~is_installed_bundle(d, bundle) THEN "BundleNotTracked"
    ELSE IF Len(required_by(m, bundle, subm, request)) > 0 /\ ~f THEN "RequiredBundleError"
    ELSE "OK"

\* ret_code after a name was rejected with code ("OK": accepted)
remove_ret_code(old, code) == IF code # "OK" THEN code ELSE old

\* one iteration of the loop over the request
RemoveBundle ==
    /\ pc = "remove_loop"
    /\ idx <= Len(req)
    /\ LET bundle == req[idx]
           code == remove_check(mom, disk, bundle, submanifests, req, force)
           deps == required_by(mom, bundle, submanifests, req)
           moved == list_move_items(deps \o << bundle >>, submanifests, bundles_to_remove)
       IN /\ ret_code' = remove_ret_code(ret_code, code)
          /\ reasons' = Append(reasons, code)
          /\ IF code # "OK"
             THEN /\ bad' = bad + 1
                  /\ UNCHANGED <<submanifests, bundles_to_remove, tracked>>
             ELSE /\ bad' = bad
                  /\ submanifests' = moved[1]
                  /\ bundles_to_remove' = moved[2]
                  /\ tracked' = tracked \ (Range(deps) \cup {bundle})
    /\ total' = total + 1
    /\ idx' = idx + 1
    /\ UNCHANGED <<mom, spaceVars, disk, side, disk0, tracked0, pc, req, force, files_to_remove,
                   installVars, telemetry, ops, walkVars>>

\* the files remove_bundles hands to remove_files_from_fs
files_to_unlink(m, removed, kept) ==
    IF removed = <<>> THEN <<>>
    ELSE list_filter_common_elements(consolidate_files_from_bundles(m, removed),
                                     consolidate_files_from_bundles(m, kept))

\* remove_files_from_fs: every listed path is unlinked
remove_files_from_fs(d, files) ==
    [p \in AllPaths |-> IF \E i \in 1..Len(files) : files[i].filename = p THEN 0 ELSE d[p]]

\* remove_bundles after the loop: consolidation, filtering and unlinking
RemoveFiles ==
    /\ pc = "remove_loop"
    /\ idx > Len(req)
    /\ files_to_remove' = files_to_unlink(mom, bundles_to_remove, submanifests)
    /\ disk' = remove_files_from_fs(disk, files_to_remove')
    /\ pc' = "done"
    /\ UNCHANGED <<mom, spaceVars, side, tracked, disk0, tracked0, req, force, idx, total, bad,
                   ret_code, reasons, submanifests, bundles_to_remove, installVars,
                   telemetry, ops, walkVars>>

NextRemove == RemoveBegin(Requests(MaxReq), RemoveEnvCodes) \/ RemoveBundle \/ RemoveFiles

\* an image whose tracking directory was seeded from the system bundle directory
InitRemove == InitCommon /\ tracked # {} /\ staged = NothingStaged

\* includes edges of MoMs in which os-core itself includes a bundle: A, which B may
\* include, which C may include
CoreEdges == {<<"os-core", "A">>, <<"B", "A">>, <<"C", "B">>}

\* these MoMs: a bundle that os-core includes does not list os-core, so that the
\* includes stay acyclic
CoreMoMs ==
    {m \in [edges : SUBSET CoreEdges, f1 : {[b \in {"A", "B"} |-> "live"]},
            optional : {{}}, bare : SUBSET {"A"}] :
        (<<"os-core", "A">> \in m.edges) => (m.bare = {"A"})}

\* images of these MoMs with a seeded tracking directory
InitCore ==
    /\ mom \in CoreMoMs
    /\ \E S \in ClosedSets(mom) :
          /\ disk = InstalledDisk(mom, S)
          /\ tracked = S
    /\ disk0 = disk
    /\ tracked0 = tracked
    /\ broken = {}
    /\ subs = <<>>
    /\ staged = NothingStaged
    /\ InitIdle

\* removals on these images
NextCore == RemoveBegin(Requests(MaxReq), {"OK"}) \/ RemoveBundle \/ RemoveFiles

SpecCore == InitCore /\ [][NextCore]_vars

SpecRemove == InitRemove /\ [][NextRemove]_vars

-----------------------------------------------------------------------------
(* Properties of remove_bundles *)

\* bundle b carries a live (not deleted) record of path p
LiveIn(b, p) ==
    \E i \in 1..Len(ManifestFiles(mom, b)) :
        ManifestFiles(mom, b)[i].filename = p /\ ~ManifestFiles(mom, b)[i].is_deleted

\* bundle b carries a record of path p that is marked deleted
DeletedIn(b, p) ==
    \E i \in 1..Len(ManifestFiles(mom, b)) :
        ManifestFiles(mom, b)[i].filename = p /\ ManifestFiles(mom, b)[i].is_deleted

\* some bundle of the kept submanifest list carries a live record of p
KeptLive(p) == \E b \in Range(submanifests) : LiveIn(b, p)

\* some bundle of the removal set carries a live record of p
RemovedLive(p) == \E b \in Range(bundles_to_remove) : LiveIn(b, p)

\* p is in the list handed to unlinking
Handed(p) == \E i \in 1..Len(files_to_remove) : files_to_remove[i].filename = p

\* C2: remove_bundles never hands to unlinking, and never erases, a path for which a
\* bundle of the kept submanifest list carries a live record, with or without --force.
C2_KeptFilesNeverUnlinked ==
    /\ \A i \in 1..Len(files_to_remove) : ~KeptLive(files_to_remove[i].filename)
    /\ pc = "done" => \A p \in AllPaths : disk[p] # disk0[p] => ~KeptLive(p)

\* a finished removal in which a removed bundle marks deleted a path that a kept bundle
\* provides, and the file is still there
C2_Witness ==
    /\ pc = "done"
    /\ files_to_remove # <<>>
    /\ \E p \in AllPaths :
          /\ KeptLive(p)
          /\ \E b \in Range(bundles_to_remove) : DeletedIn(b, p)
          /\ disk[p] # 0

\* C3: after a removal, every path with a live record in a removed manifest and no live
\* record in a kept manifest was handed to unlinking and is gone.
C3_UniqueFilesUnlinked ==
    pc = "done" =>
        \A p \in AllPaths :
            (RemovedLive(p) /\ ~KeptLive(p)) => (Handed(p) /\ disk[p] = 0)

\* a finished removal where a path provided only by a removed bundle is marked deleted
\* by a kept bundle, and was unlinked
C3_Witness ==
    /\ pc = "done"
    /\ \E p \in AllPaths :
          /\ RemovedLive(p)
          /\ ~KeptLive(p)
          /\ \E b \in Range(submanifests) : DeletedIn(b, p)
          /\ disk0[p] # 0
          /\ disk[p] = 0

\* positions of the request whose name was rejected
Rejected == {i \in 1..Len(reasons) : reasons[i] # "OK"}

\* files of os-core are in place, os-core is kept and its tracking record is as before
OsCoreUntouched ==
    /\ "os-core" \in Range(submanifests)
    /\ "os-core" \notin Range(bundles_to_remove)
    /\ \A p \in AllPaths : LiveIn("os-core", p) => (~Handed(p) /\ disk[p] = disk0[p])
    /\ ("os-core" \in tracked) = ("os-core" \in tracked0)

\* C8: a remove request that names os-core returns RequiredBundleError, whatever else
\* the list carries and in whatever order, and the files of os-core are left untouched.
C8_OsCoreAlwaysRequiredBundleError ==
    (pc = "done" /\ "os-core" \in Range(req)) =>
        /\ ret_code = "RequiredBundleError"
        /\ OsCoreUntouched

\* the most severe of the codes in reasons
MostSevere ==
    IF "RequiredBundleError" \in Range(reasons) THEN "RequiredBundleError"
    ELSE IF "InvalidBundle" \in Range(reasons) THEN "InvalidBundle"
    ELSE IF "BundleNotTracked" \in Range(reasons) THEN "BundleNotTracked"
    ELSE "OK"

\* C9: the exit code is the most severe rejection (required-bundle > invalid >
\* not-installed) whatever the order of the names, and bad/total count the rejected and
\* the processed names.
C9_ExitCodeByPriority ==
    pc = "done" =>
        /\ ret_code = MostSevere
        /\ bad = Cardinality(Rejected)
        /\ total = Len(req)

\* the includes edges of the MoM
IncludeEdges == {e \in Bundles \X Bundles : e[2] \in Range(ManifestIncludes(mom, e[1]))}

RECURSIVE TransitiveClosure(_)
TransitiveClosure(R) ==
    LET R2 == R \cup {e \in Bundles \X Bundles :
                        \E b \in Bundles : <<e[1], b>> \in R /\ <<b, e[2]>> \in R}
    IN IF R2 = R THEN R ELSE TransitiveClosure(R2)

\* installed bundles outside the request that include T through one or more edges of
\* the relation tc
DependentsOutside(tc, T) ==
    {D \in Bundles \ Range(req) : disk0[MarkerPath(D)] # 0 /\ <<D, T>> \in tc}

\* position i of the request was processed without --force and names an installed
\* bundle of the MoM that an installed bundle outside the request includes
RequiredCase(tc, i) ==
    /\ i \in 1..Len(reasons)
    /\ req[i] \in Bundles \ {"os-core"}
    /\ disk0[MarkerPath(req[i])] # 0
    /\ DependentsOutside(tc, req[i]) # {}

\* C10: without --force a bundle T that an installed bundle outside the request
\* transitively includes is rejected with RequiredBundleError; T stays in the kept list,
\* and T and those dependents keep their files, stay installed and keep their tracking
\* records.
C10_RequiredBundleSkipped ==
    (pc \in {"remove_loop", "done"} /\ ~force) =>
        LET tc == TransitiveClosure(IncludeEdges) IN
        \A i \in 1..Len(req) :
            RequiredCase(tc, i) =>
                /\ reasons[i] = "RequiredBundleError"
                /\ \A b \in {req[i]} \cup DependentsOutside(tc, req[i]) :
                      /\ b \in Range(submanifests)
                      /\ b \notin Range(bundles_to_remove)
                      /\ \A p \in AllPaths : LiveIn(b, p) => (~Handed(p) /\ disk[p] = disk0[p])
                      /\ is_installed_bundle(disk, b)
                      /\ (b \in tracked) = (b \in tracked0)

\* a finished request where T is required only through a bundle that the request names
\* too: no bundle outside the request includes T directly
C10_Witness ==
    /\ pc = "done"
    /\ ~force
    /\ LET tc == TransitiveClosure(IncludeEdges) IN
       \E i \in 1..Len(req) :
          /\ RequiredCase(tc, i)
          /\ \A D \in DependentsOutside(tc, req[i]) :
                req[i] \notin Range(ManifestIncludes(mom, D))
          /\ reasons[i] = "RequiredBundleError"

\* installed bundles that include T through one or more edges of the relation tc
InstalledDependents(tc, T) == {D \in Bundles : disk0[MarkerPath(D)] # 0 /\ <<D, T>> \in tc}

\* C11: with --force, a bundle T of the request that passes the checks goes to the
\* removal set with every installed bundle that transitively includes it; when the
\* removal ends none of them is installed or tracked, every path with a live record
\* only in removed bundles is unlinked, and every path with a live record in a kept
\* bundle is as it was.
C11_ForceRemovesDependents ==
    (pc = "done" /\ force) =>
        LET tc == TransitiveClosure(IncludeEdges) IN
        /\ \A i \in 1..Len(req) :
              (req[i] \in Bundles \ {"os-core"} /\ disk0[MarkerPath(req[i])] # 0) =>
                  /\ reasons[i] = "OK"
                  /\ \A b \in {req[i]} \cup InstalledDependents(tc, req[i]) :
                        /\ b \in Range(bundles_to_remove)
                        /\ b \notin Range(submanifests)
                        /\ ~is_installed_bundle(disk, b)
                        /\ b \notin tracked
        /\ \A p \in AllPaths :
              /\ (RemovedLive(p) /\ ~KeptLive(p)) => disk[p] = 0
              /\ KeptLive(p) => disk[p] = disk0[p]

\* a forced removal of one bundle that took along a bundle that includes it only
\* through another one, unlinked a file and kept a file that a kept bundle shares
C11_Witness ==
    /\ pc = "done"
    /\ force
    /\ Len(req) = 1
    /\ reasons = << "OK" >>
    /\ \E D \in Range(bundles_to_remove) :
          /\ D # req[1]
          /\ req[1] \notin Range(ManifestIncludes(mom, D))
    /\ \E p \in AllPaths : RemovedLive(p) /\ KeptLive(p) /\ disk[p] # 0
    /\ \E p \in AllPaths : RemovedLive(p) /\ disk0[p] # 0 /\ disk[p] = 0

-----------------------------------------------------------------------------
(* Forward resolution *)

\* manifest->optional of bundle b
ManifestOptional(m, b) == SelectSeq(BundleOrder, LAMBDA x : <<b, x>> \in m.optional)

\* component_subscribed
component_subscribed(sublist, bundle) == bundle \in Range(sublist)

RECURSIVE add_subscriptions_from(_, _, _, _, _, _, _, _, _)
\* the loop of add_subscriptions over bundles, from position k; st carries the
\* subscription list and the bits of the return value
add_subscriptions_from(bundles, k, st, m, d, brk, skip_optional, find_all, recursion) ==
    IF k > Len(bundles) THEN st
    ELSE LET
        bundle == bundles[k]
        subscribed == component_subscribed(st.subs, bundle)
        st1 == IF subscribed THEN st
               ELSE [subs |-> Append(st.subs, bundle), ret |-> st.ret \cup {"NEW"}]
        st2 == IF ManifestIncludes(m, bundle) # <<>>
               THEN add_subscriptions_from(ManifestIncludes(m, bundle), 1, st1, m, d, brk,
                                           skip_optional, find_all, recursion + 1)
               ELSE st1
        st3 == IF ~skip_optional /\ ManifestOptional(m, bundle) # <<>>
               THEN add_subscriptions_from(ManifestOptional(m, bundle), 1, st2, m, d, brk,
                                           skip_optional, find_all, recursion + 1)
               ELSE st2
    IN  IF ~search_bundle_in_manifest(bundle)
        THEN add_subscriptions_from(bundles, k + 1, [st EXCEPT !.ret = @ \cup {"BADNAME"}],
                                    m, d, brk, skip_optional, find_all, recursion)
        ELSE IF ~find_all /\ is_installed_bundle(d, bundle)
        THEN add_subscriptions_from(bundles, k + 1, st, m, d, brk, skip_optional, find_all,
                                    recursion)
        ELSE IF bundle \in brk
        THEN [st EXCEPT !.ret = @ \cup {"ERR"}]
        ELSE IF subscribed /\ recursion > 0
        THEN add_subscriptions_from(bundles, k + 1, st, m, d, brk, skip_optional, find_all,
                                    recursion)
        ELSE add_subscriptions_from(bundles, k + 1, st3, m, d, brk, skip_optional, find_all,
                                    recursion)

\* add_subscriptions: the subscription list and the bits {"ERR", "NEW", "BADNAME"}
add_subscriptions(bundles, sublist, m, d, brk, skip_optional, find_all, recursion) ==
    add_subscriptions_from(bundles, 1, [subs |-> sublist, ret |-> {}], m, d, brk,
                           skip_optional, find_all, recursion)

-----------------------------------------------------------------------------
(* Tracking store *)

\* bundles present in the system bundle directory
system_bundles(d) == {b \in Bundles : is_installed_bundle(d, b)}

\* track_installed: an empty or missing tracking directory is first seeded with a copy
\* of the system bundle directory
track_installed(tr, d, bundle_name) ==
    IF tr = {} THEN system_bundles(d) \cup {bundle_name} ELSE tr \cup {bundle_name}

RECURSIVE track_all(_, _, _)
\* track_installed for each name of a list in turn
track_all(tr, d, names) ==
    IF names = <<>> THEN tr
    ELSE track_all(track_installed(tr, d, Head(names)), d, Tail(names))

-----------------------------------------------------------------------------
(* install_bundles *)

\* filter_out_deleted_files
filter_out_deleted_files(files) == SelectSeq(files, LAMBDA f : ~f.is_deleted)

\* filter_out_existing_files: the desired records whose path and hash are not among
\* the installed records
filter_out_existing_files(desired, installed) ==
    SelectSeq(desired, LAMBDA f :
        ~\E i \in 1..Len(installed) :
            installed[i].filename = f.filename /\ installed[i].hash = f.hash)

\* to_install_files: the files of the subscribed bundles that the installed bundles do
\* not provide yet
install_plan(m, d, sublist) ==
    filter_out_existing_files(
        filter_out_deleted_files(consolidate_files_from_bundles(m, sublist)),
        filter_out_deleted_files(consolidate_files_from_bundles(m, installed_manifests(d))))

\* ignore: no path of the model is one that updates leave alone
ignore(f) == FALSE

\* the two loops skip records that are deleted, flagged do_not_update, or ignored
install_skip(item) == item.file.is_deleted \/ item.file.do_not_update \/ ignore(item.file)

\* do_staging: a path of another type is unlinked; a directory is created at its final
\* name, the staged content of a file is copied to its sidecar
do_staging(d, s, f, content) ==
    LET p == f.filename
        d1 == IF d[p] # 0 /\ ((d[p] = -1) # f.is_dir) THEN [d EXCEPT ![p] = 0] ELSE d
    IN IF f.is_dir THEN [disk |-> [d1 EXCEPT ![p] = -1], side |-> s]
       ELSE [disk |-> d1, side |-> [s EXCEPT ![p] = content]]

\* rename_staged_file_to_final: the sidecar of a file replaces the final path; a
\* directory has nothing to rename
rename_staged_file_to_final(d, s, f) ==
    IF f.is_dir THEN [disk |-> d, side |-> s]
    ELSE [disk |-> [d EXCEPT ![f.filename] = s[f.filename]],
          side |-> [s EXCEPT ![f.filename] = 0]]

\* search_file_in_manifest: the record of the path in mom->files as a one-element
\* list, the empty list for NULL
search_file_in_manifest(files, p) == SelectSeq(files, LAMBDA f : f.filename = p)

\* the record Phase B renames for an item of the plan, as a one-element list: the
\* item's own record, or the record of the MoM when the item carries no staging name
\* and is no directory (the empty list: a NULL pointer)
rename_target(item, files) ==
    IF ~item.staging /\ ~item.file.is_dir
    THEN search_file_in_manifest(files, item.file.filename)
    ELSE << item.file >>

\* outcomes of swupd_init, get_current_version and load_mom in the front end, and of
\* recurse_manifest, the disk space check, download_fullfiles and the removal of a
\* corrupt staged file in install_bundles
InstallEnvCodes == {"OK", "InitError", "CurrentVersionUnknown", "CouldntLoadMoM",
                    "RecurseManifest", "DiskSpaceError", "DownloadError", "CouldntRemoveFile"}

FrontEndCodes == {"InitError", "CurrentVersionUnknown", "CouldntLoadMoM"}

\* the return value when no new bundle was subscribed
install_early_ret(bits) ==
    IF "ERR" \in bits THEN "CouldntLoadManifest"
    ELSE IF "BADNAME" \in bits THEN "InvalidBundle"
    ELSE "OK"

\* download_fullfiles: every regular file of the plan that the staging area lacks is
\* fetched; what is there already is left as it is
download_fullfiles(stg, plan) ==
    [p \in AllPaths |->
        IF stg[p] = 0 /\ \E i \in 1..Len(plan) : plan[i].filename = p /\ ~plan[i].is_dir
        THEN plan[CHOOSE i \in 1..Len(plan) : plan[i].filename = p].hash
        ELSE stg[p]]

\* the paths of the plan whose staged file does not verify against the hash of the record
corrupt_staged(stg, plan) ==
    {p \in AllPaths : \E i \in 1..Len(plan) :
        plan[i].filename = p /\ ~plan[i].is_dir /\ stg[p] # 0 /\ stg[p] # plan[i].hash}

\* the check of the staged files before the two loops: a staged file that does not
\* verify is removed from the staging area
preflight(stg, plan) ==
    [p \in AllPaths |-> IF p \in corrupt_staged(stg, plan) THEN 0 ELSE stg[p]]

\* what install_bundles_frontend emits at clean_and_exit when it fails before
\* install_bundles: nothing after a failed swupd_init, else a record with the empty
\* bundle list
frontend_telemetry(env) ==
    IF env \in {"CurrentVersionUnknown", "CouldntLoadMoM"}
    THEN << Telemetry("bundleadd", <<>>, env) >>
    ELSE <<>>

\* install_bundles_frontend and install_bundles up to the two loops: resolution,
\* tracking of the requested bundles that are installed, consolidation, admission,
\* downloads and the check of the staged files; a run that follows a halt repeats
\* the request
\* bytes free on <prefix>/usr/ when there is room for every bundle of the model
AmpleSpace == 1000

\* manifest->contentsize of bundle b
ContentSize(b) ==
    IF b = "A" THEN 20 ELSE IF b = "B" THEN 30 ELSE IF b = "C" THEN 50 ELSE 0

\* get_manifest_list_contentsize: the sum of contentsize over the list
RECURSIVE get_manifest_list_contentsize(_)
get_manifest_list_contentsize(bundles) ==
    IF bundles = <<>> THEN 0
    ELSE ContentSize(Head(bundles)) + get_manifest_list_contentsize(Tail(bundles))

\* the exponent of the double nearest to f: the largest e with 2^e <= f
RECURSIVE floor_log2(_)
floor_log2(f) == IF f < 2 THEN 0 ELSE 1 + floor_log2(f \div 2)

\* (bundle_size * 1.1) > fs_free with the product of a long and the binary64 constant 1.1
\* (1.1 + 0.4 * 2^-52), rounded to nearest, ties to even. Away from 11 * bundle_size =
\* 10 * fs_free the rounding decides nothing; there the exact product is fs_free +
\* 0.4 * bundle_size * 2^-52 and is rounded up when that is more than half a step of
\* the doubles at fs_free, 2^(e - 53)
fudged_exceeds(bundle_size, fs) ==
    IF 11 * bundle_size # 10 * fs THEN 11 * bundle_size > 10 * fs
    ELSE bundle_size > 0 /\ 4 * bundle_size > 5 * 2 ^ floor_log2(fs)

\* step 3 of install_bundles: is the install rejected for lack of space
disk_space_error(skip, bundle_size, fs) ==
    ~skip /\ (fudged_exceeds(bundle_size, fs) \/ fs < 0)

\* install_bundles_frontend and install_bundles up to the first loop; the flag
\* --skip-diskspace-check is drawn from skips, the answer of get_available_space from
\* spaces
InstallStart(requests, envs, skips, spaces) ==
    /\ pc = "idle"
    /\ \E request \in (IF halts # <<>> THEN {req} ELSE requests), env \in envs, skip \in skips :
        LET st == add_subscriptions(request, <<>>, mom, disk, broken, FALSE, FALSE, 0)
            plan == install_plan(mom, disk, st.subs)
            fetched == download_fullfiles(staged, plan)
            queried == /\ env \notin FrontEndCodes \cup {"RecurseManifest"}
                       /\ "NEW" \in st.ret
                       /\ ~skip
        IN
          /\ skip_diskspace_check' = skip
          /\ IF queried
             THEN fs_free' \in {f \in spaces :
                                  (env = "DiskSpaceError") <=>
                                      disk_space_error(skip,
                                                       get_manifest_list_contentsize(st.subs), f)}
             ELSE /\ env # "DiskSpaceError"
                  /\ fs_free' = fs_free
          /\ (env = "CouldntRemoveFile") => (corrupt_staged(fetched, plan) # {})
          /\ req' = request
          /\ trace' = <<>>
          /\ idx' = 1
          /\ ops' = Append(ops, Started("install", request, FALSE))
          /\ telemetry' = frontend_telemetry(env)
          /\ IF env \in FrontEndCodes
             THEN /\ pc' = "aborted"
                  /\ ret_code' = env
                  /\ subs' = <<>>
                  /\ to_install_bundles' = <<>>
                  /\ to_install_files' = <<>>
                  /\ mom_files' = <<>>
                  /\ invalid_bundle_provided' = FALSE
                  /\ UNCHANGED <<tracked, staged>>
             ELSE /\ subs' = st.subs
                  /\ tracked' = track_all(tracked, disk,
                                          SelectSeq(request, LAMBDA b : is_installed_bundle(disk, b)))
                  /\ IF "NEW" \notin st.ret
                     THEN /\ pc' = "install_out"
                          /\ ret_code' = install_early_ret(st.ret)
                          /\ to_install_bundles' = <<>>
                          /\ to_install_files' = <<>>
                          /\ mom_files' = <<>>
                          /\ invalid_bundle_provided' = FALSE
                          /\ UNCHANGED staged
                     ELSE /\ invalid_bundle_provided' = ("BADNAME" \in st.ret)
                          /\ to_install_bundles' = IF env = "RecurseManifest" THEN <<>> ELSE st.subs
                          /\ IF env # "OK"
                             THEN /\ pc' = "install_out"
                                  /\ ret_code' = env
                                  /\ to_install_files' = <<>>
                                  /\ mom_files' = <<>>
                                  /\ staged' = IF env = "CouldntRemoveFile" THEN fetched
                                               ELSE staged
                             ELSE /\ pc' = IF plan = <<>> THEN "rename" ELSE "stage"
                                  /\ ret_code' = "OK"
                                  /\ to_install_files' =
                                        [i \in 1..Len(plan) |-> [file |-> plan[i], staging |-> FALSE]]
                                  /\ mom_files' = consolidate_files_from_bundles(
                                                      mom, installed_manifests(disk))
                                  /\ staged' = preflight(fetched, plan)
    /\ UNCHANGED <<mom, disk, side, disk0, tracked0, removeVars, broken, halts, walkVars>>

\* an install without --skip-diskspace-check on a file system that has ample space or
\* cannot tell its free space
InstallBegin(requests, envs) == InstallStart(requests, envs, {FALSE}, {-1, AmpleSpace})

\* where the install goes after do_staging returned: on to the next record, to the
\* second loop after the last record, out on a failure
stage_next_ignore_failure(ok, i, n) ==
    IF i < n THEN [pc |-> "stage", idx |-> i + 1] ELSE [pc |-> "rename", idx |-> 1]

stage_next(ok, i, n) ==
    IF ~ok THEN [pc |-> "install_out", idx |-> i]
    ELSE IF i < n THEN [pc |-> "stage", idx |-> i + 1]
    ELSE [pc |-> "rename", idx |-> 1]

\* one iteration of the first loop (Phase A): the record is staged; do_staging fails
\* for a file that the staging area lacks. When the parent directory of a file was
\* missing and path-repair materialized it (repaired), the file is staged but its
\* record in the plan carries no staging name
Stage(outcomes, repairs) ==
    /\ pc = "stage"
    /\ idx <= Len(to_install_files)
    /\ LET item == to_install_files[idx] IN
       \E ok \in outcomes, repaired \in repairs :
          LET skip == install_skip(item)
              content == staged[item.file.filename]
              done == do_staging(disk, side, item.file, content)
              next == stage_next(skip \/ ok, idx, Len(to_install_files))
          IN /\ (skip => ok)
             /\ (skip \/ item.file.is_dir \/ ~ok) => ~repaired
             /\ (~skip /\ ~item.file.is_dir /\ content = 0) => ~ok
             /\ pc' = next.pc
             /\ idx' = next.idx
             /\ IF skip
                THEN UNCHANGED <<disk, side, to_install_files, trace, ret_code>>
                ELSE /\ trace' = Append(trace, [op |-> "stage", path |-> item.file.filename,
                                                is_dir |-> item.file.is_dir, ok |-> ok])
                     /\ IF ok
                        THEN /\ disk' = done.disk
                             /\ side' = done.side
                             /\ to_install_files' =
                                   [to_install_files EXCEPT
                                       ![idx].staging = ~item.file.is_dir /\ ~repaired]
                             /\ UNCHANGED ret_code
                        ELSE /\ ret_code' = "StagingError"
                             /\ UNCHANGED <<disk, side, to_install_files>>
    /\ UNCHANGED <<mom, spaceVars, tracked, disk0, tracked0, req, removeVars, broken, subs,
                   to_install_bundles, invalid_bundle_provided, mom_files, halts, staged,
                   telemetry, ops, walkVars>>

\* one iteration of the second loop (Phase B): the record is renamed to its final
\* name; the value rename_staged_file_to_final returns is not used. The record looked
\* up in mom->files is not tested for NULL: with a NULL record the call stops the
\* process or fails, and then the loop goes on
Rename(outcomes) ==
    /\ pc = "rename"
    /\ idx <= Len(to_install_files)
    /\ LET item == to_install_files[idx]
           skip == install_skip(item)
           target == rename_target(item, mom_files)
       IN \E ok \in outcomes :
          /\ (skip \/ item.file.is_dir) => ok
          /\ idx' = idx + 1
          /\ IF skip
             THEN UNCHANGED <<disk, side, trace, pc>>
             ELSE IF target = <<>>
             THEN /\ pc' \in {"crashed", pc}
                  /\ UNCHANGED <<disk, side, trace>>
             ELSE /\ trace' = Append(trace, [op |-> "rename", path |-> target[1].filename,
                                             is_dir |-> target[1].is_dir, ok |-> ok])
                  /\ pc' = pc
                  /\ IF ok
                     THEN /\ disk' = rename_staged_file_to_final(disk, side, target[1]).disk
                          /\ side' = rename_staged_file_to_final(disk, side, target[1]).side
                     ELSE UNCHANGED <<disk, side>>
    /\ UNCHANGED <<mom, spaceVars, tracked, disk0, tracked0, req, ret_code, removeVars, broken, subs,
                   to_install_bundles, to_install_files, invalid_bundle_provided, mom_files,
                   halts, staged, telemetry, ops, walkVars>>

\* install_bundles after the second loop: sync, the post-update scripts, ret = SWUPD_OK
InstallRenamed ==
    /\ pc = "rename"
    /\ idx > Len(to_install_files)
    /\ pc' = "install_out"
    /\ ret_code' = "OK"
    /\ UNCHANGED <<mom, spaceVars, disk, side, tracked, disk0, tracked0, req, idx, removeVars,
                   installVars, telemetry, ops, walkVars>>

\* newly_installed without the test for the request
newly_installed_with_dependencies(d, bundles, request) ==
    SelectSeq(bundles, LAMBDA b : is_installed_bundle(d, b))

\* the requested bundles of to_install_bundles that are installed now
newly_installed(d, bundles, request) ==
    SelectSeq(bundles, LAMBDA b : is_installed_bundle(d, b) /\ b \in Range(request))

\* the flag of an invalid name put before every other code
install_ret_invalid_first(invalid, ret) == IF invalid THEN "InvalidBundle" ELSE ret

\* the value install_bundles returns: the flag of an invalid name counts only when
\* there is no other error
install_ret(invalid, ret) == IF invalid /\ ret = "OK" THEN "InvalidBundle" ELSE ret

\* install_bundles from the label out: tracking of the requested bundles that got
\* installed, and the return value, which install_bundles_frontend reports in its
\* telemetry record
InstallFinish ==
    /\ pc = "install_out"
    /\ tracked' = track_all(tracked, disk, newly_installed(disk, to_install_bundles, req))
    /\ ret_code' = install_ret(invalid_bundle_provided, ret_code)
    /\ telemetry' = Append(telemetry, Telemetry("bundleadd", req, ret_code'))
    /\ pc' = "done"
    /\ UNCHANGED <<mom, spaceVars, disk, side, disk0, tracked0, req, idx, removeVars, installVars, ops,
                   walkVars>>

NextInstall ==
    \/ InstallBegin(Requests(MaxReq), InstallEnvCodes)
    \/ Stage(BOOLEAN, {FALSE})
    \/ Rename(BOOLEAN)
    \/ InstallRenamed
    \/ InstallFinish

\* images whose MoM chains the bundles (C includes A, A includes B, or less), where A
\* carries a record of path 2 and B no deleted one
\* the images and MoMs the installs start from
InitInstallTree ==
    /\ InitCommon
    /\ mom.edges \subseteq {<<"C", "A">>, <<"A", "B">>}
    /\ mom.f1["A"] # "absent"
    /\ mom.f1["B"] # "deleted"

InitInstall == InitInstallTree /\ staged = NothingStaged

SpecInstall == InitInstall /\ [][NextInstall]_vars

-----------------------------------------------------------------------------
(* Interrupted installs *)

\* a sidecar was renamed to its final name in the running install
RenamedSomething ==
    \E k \in 1..Len(trace) : trace[k].op = "rename" /\ trace[k].ok /\ ~trace[k].is_dir

\* where a halt hits the running install: in Phase A, between the phases (every record
\* staged, nothing renamed yet), after the first rename, or at the label out of a run
\* that renamed nothing
halt_kind ==
    IF pc = "stage" THEN "phaseA"
    ELSE IF RenamedSomething THEN "phaseB"
    ELSE IF pc = "rename" THEN "between"
    ELSE "out"

\* the process stops in the middle of the two loops or before the label out; what it
\* wrote stays, and the request can be run again
Halt ==
    /\ pc \in {"stage", "rename", "install_out"}
    /\ Len(halts) < MaxHalts
    /\ halts' = Append(halts, halt_kind)
    /\ pc' = "idle"
    /\ UNCHANGED <<mom, spaceVars, disk, side, tracked, disk0, tracked0, req, idx, ret_code, removeVars,
                   broken, subs, to_install_bundles, to_install_files,
                   invalid_bundle_provided, mom_files, trace, staged, telemetry, ops, walkVars>>

\* requests for one name
CrashRequests == {<< b >> : b \in Names}

\* installs of one name without faults of the environment, halted and run again
NextCrash ==
    \/ InstallBegin(CrashRequests, {"OK"})
    \/ Stage({TRUE}, {FALSE})
    \/ Rename({TRUE})
    \/ InstallRenamed
    \/ InstallFinish
    \/ Halt

SpecCrash == InitInstall /\ [][NextCrash]_vars


-----------------------------------------------------------------------------
(* Operations run one after the other *)

\* the operation returned: its exit code, the target tree it leaves and the bundles it
\* removed are kept, and the next operation can start
Return ==
    /\ pc \in {"done", "aborted"}
    /\ Len(ops) < MaxOps
    /\ ops' = [ops EXCEPT ![Len(ops)] =
                  [@ EXCEPT !.ret = ret_code, !.after = disk,
                            !.removed = IF ops[Len(ops)].op = "remove"
                                         THEN bundles_to_remove ELSE <<>>]]
    /\ pc' = "idle"
    /\ UNCHANGED <<mom, spaceVars, disk, side, tracked, disk0, tracked0, req, idx, ret_code, removeVars,
                   installVars, telemetry, walkVars>>

\* the requests of a run of operations: one name, the same for each operation
SeqRequests == IF ops = <<>> THEN CrashRequests ELSE {ops[1].req}

\* installs and removals of one bundle name, one after the other, without faults of
\* the environment before the two loops
NextSeq ==
    \/ RemoveBegin(SeqRequests, {"OK"})
    \/ RemoveBundle
    \/ RemoveFiles
    \/ InstallBegin(SeqRequests, {"OK"})
    \/ Stage({TRUE}, {FALSE})
    \/ Rename(BOOLEAN)
    \/ InstallRenamed
    \/ InstallFinish
    \/ Return

SpecSeq == InitInstall /\ [][NextSeq]_vars

-----------------------------------------------------------------------------
(* Installs that find files in the staging area *)

\* staging areas left by earlier runs: empty, or one file under the name the marker of
\* a bundle is staged with, whose content verifies (ten times the path, as in the
\* manifests) or does not (99)
LeftStaged ==
    {NothingStaged} \cup
    UNION {{[p \in AllPaths |-> IF p = q THEN v ELSE 0] : v \in {10 * q, 99}} : q \in {3, 4, 5}}

InitPreflight == InitInstallTree /\ staged \in LeftStaged

NextPreflight ==
    \/ InstallBegin(CrashRequests, {"OK", "CouldntRemoveFile"})
    \/ Stage(BOOLEAN, {FALSE})
    \/ Rename({TRUE})
    \/ InstallRenamed
    \/ InstallFinish

SpecPreflight == InitPreflight /\ [][NextPreflight]_vars

-----------------------------------------------------------------------------
(* Installs in which path-repair staged a file *)

\* installs of one name without faults, in which any file may be staged by path-repair
NextRepair ==
    \/ InstallBegin(CrashRequests, {"OK"})
    \/ Stage({TRUE}, BOOLEAN)
    \/ Rename({TRUE})
    \/ InstallRenamed
    \/ InstallFinish

SpecRepair == InitInstall /\ [][NextRepair]_vars

\* answers of get_available_space: the query fails, or the bytes free are at, just below
\* or just above 1.1 times the content size of one or more bundles
FreeSpaces == {-1, 0, 21, 22, 55, 56, 110, AmpleSpace}

\* installs with and without --skip-diskspace-check on file systems of every such size,
\* with no other fault
NextSpace ==
    \/ InstallStart(CrashRequests, {"OK", "DiskSpaceError"}, BOOLEAN, FreeSpaces)
    \/ Stage({TRUE}, {FALSE})
    \/ Rename({TRUE})
    \/ InstallRenamed
    \/ InstallFinish

SpecSpace == InitInstall /\ [][NextSpace]_vars

\* the image d with something of another type at path p, where a bundle that is not
\* installed ships a directory (path 1) or a file (path 8): a file at 1, a directory
\* at 8; p = 0 leaves the image as it is
Mistyped(d, p) ==
    IF p = 1 /\ d[1] = 0 THEN [d EXCEPT ![1] = 11]
    ELSE IF p = 8 /\ d[8] = 0 THEN [d EXCEPT ![8] = -1]
    ELSE d

\* images as above on which the user may have put a file or a directory of their own
InitTypes ==
    /\ mom \in MoMs
    /\ mom.edges \subseteq {<<"C", "A">>, <<"A", "B">>}
    /\ mom.f1["A"] # "absent"
    /\ mom.f1["B"] # "deleted"
    /\ \E S \in ClosedSets(mom), p \in {0, 1, 8} :
          /\ disk = Mistyped(InstalledDisk(mom, S), p)
          /\ tracked = S
    /\ disk0 = disk
    /\ tracked0 = tracked
    /\ broken = {}
    /\ subs = <<>>
    /\ staged = NothingStaged
    /\ InitIdle

\* installs of one name in which staging may fail
NextTypes ==
    \/ InstallBegin(CrashRequests, {"OK"})
    \/ Stage(BOOLEAN, {FALSE})
    \/ Rename({TRUE})
    \/ InstallRenamed
    \/ InstallFinish

SpecTypes == InitTypes /\ [][NextTypes]_vars

\* images as above with a store on which the manifest of A or of B may fail to load
InitBroken ==
    /\ mom \in MoMs
    /\ mom.edges \subseteq {<<"C", "A">>, <<"A", "B">>}
    /\ mom.f1["A"] # "absent"
    /\ mom.f1["B"] # "deleted"
    /\ \E S \in ClosedSets(mom) :
          /\ disk = InstalledDisk(mom, S)
          /\ tracked \in {{}, S}
    /\ disk0 = disk
    /\ tracked0 = tracked
    /\ broken \in {{}, {"A"}, {"B"}}
    /\ subs = <<>>
    /\ staged = NothingStaged
    /\ InitIdle

\* installs with no fault but the manifests that do not load
NextBroken ==
    \/ InstallBegin(Requests(MaxReq), {"OK"})
    \/ Stage({TRUE}, {FALSE})
    \/ Rename({TRUE})
    \/ InstallRenamed
    \/ InstallFinish

SpecBroken == InitBroken /\ [][NextBroken]_vars

-----------------------------------------------------------------------------
(* add_subscriptions, one step at a time *)

\* deepest call stack the model follows
MaxDepth == 6

\* includes edges of the MoMs the walks run on: a cycle (A and B include each other), a
\* bundle that lists itself, and two ways from C to B
WalkEdges == {<<"A", "B">>, <<"B", "A">>, <<"A", "A">>, <<"C", "A">>, <<"C", "B">>}

\* optional (also-add) edges of these MoMs
WalkOptional == {<<"B", "C">>}

WalkMoMs ==
    [edges : SUBSET WalkEdges, f1 : {[b \in {"A", "B"} |-> "live"]},
     optional : SUBSET WalkOptional, bare : {{}}]

\* seed lists of at most n names
WalkSeeds(n) == UNION {[1..k -> {"A", "C", "ZZZ"}] : k \in 1..n}

\* a level whose loop starts at the second bundle of its list
SubsFrame_from_second(bundles, recursion) ==
    [bundles |-> bundles, k |-> 2, at |-> "top", recursion |-> recursion]

\* a level of add_subscriptions that starts its loop over bundles
SubsFrame(bundles, recursion) ==
    [bundles |-> bundles, k |-> 1, at |-> "top", recursion |-> recursion]

\* the frame with its loop moved on to the next bundle
next_bundle(frame) == [frame EXCEPT !.k = @ + 1, !.at = "top"]

\* the stack with its innermost frame replaced
with_top(stk, frame) == [stk EXCEPT ![Len(stk)] = frame]

\* the stack after the innermost level returned
pop(stk) == SubSeq(stk, 1, Len(stk) - 1)

\* the cut that is never taken
cut_short_never(sublist, bundle, recursion) == FALSE

\* below the top level a bundle that is subscribed already is not visited
cut_short(sublist, bundle, recursion) == component_subscribed(sublist, bundle) /\ recursion > 0

\* a subscription is appended whatever the list holds
subscribe_always(sublist, bundle) == Append(sublist, bundle)

\* create_and_append_subscription is called when the list has no subscription of the
\* component
subscribe(sublist, bundle) ==
    IF component_subscribed(sublist, bundle) THEN sublist ELSE Append(sublist, bundle)

\* a call of add_subscriptions at recursion 0
SubsCall(seedlists) ==
    /\ pc = "idle"
    /\ \E seeds \in seedlists, fa \in BOOLEAN, so \in BOOLEAN :
          /\ walk' = [fn |-> "add_subscriptions", bundles |-> seeds, find_all |-> fa,
                      skip_optional |-> so, subs0 |-> subs]
          /\ stack' = << SubsFrame(seeds, 0) >>
    /\ sub_ret' = {}
    /\ pc' = "subscribing"
    /\ UNCHANGED <<mom, spaceVars, disk, side, tracked, disk0, tracked0, req, idx, ret_code, removeVars,
                   installVars, telemetry, ops, reqd_by>>

\* the body of the loop for one bundle, up to the recursive call on its includes
SubsVisit ==
    /\ pc = "subscribing"
    /\ stack # <<>>
    /\ LET top == stack[Len(stack)] IN
       /\ top.at = "top"
       /\ top.k <= Len(top.bundles)
       /\ LET bundle == top.bundles[top.k]
              includes == ManifestIncludes(mom, bundle)
          IN
          IF ~search_bundle_in_manifest(bundle)
          THEN /\ sub_ret' = sub_ret \cup {"BADNAME"}
               /\ stack' = with_top(stack, next_bundle(top))
               /\ UNCHANGED <<subs, pc>>
          ELSE IF ~walk.find_all /\ is_installed_bundle(disk, bundle)
          THEN /\ stack' = with_top(stack, next_bundle(top))
               /\ UNCHANGED <<subs, sub_ret, pc>>
          ELSE IF bundle \in broken
          THEN /\ sub_ret' = sub_ret \cup {"ERR"}
               /\ stack' = pop(stack)
               /\ pc' = IF Len(stack) = 1 THEN "subscribed" ELSE pc
               /\ UNCHANGED subs
          ELSE IF cut_short(subs, bundle, top.recursion)
          THEN /\ stack' = with_top(stack, next_bundle(top))
               /\ UNCHANGED <<subs, sub_ret, pc>>
          ELSE /\ subs' = subscribe(subs, bundle)
               /\ sub_ret' = IF component_subscribed(subs, bundle) THEN sub_ret
                             ELSE sub_ret \cup {"NEW"}
               /\ (includes # <<>>) => Len(stack) < MaxDepth
               /\ stack' = IF includes # <<>>
                           THEN Append(with_top(stack, [top EXCEPT !.at = "includes"]),
                                       SubsFrame(includes, top.recursion + 1))
                           ELSE with_top(stack, [top EXCEPT !.at = "includes"])
               /\ UNCHANGED pc
    /\ UNCHANGED <<mom, spaceVars, disk, side, tracked, disk0, tracked0, req, idx, ret_code, removeVars,
                   broken, to_install_bundles, to_install_files, invalid_bundle_provided,
                   mom_files, trace, halts, staged, telemetry, ops, walk, reqd_by>>

\* the rest of the body: the recursive call on the optional bundles, then the next bundle
SubsOptional ==
    /\ pc = "subscribing"
    /\ stack # <<>>
    /\ LET top == stack[Len(stack)]
           optional == ManifestOptional(mom, top.bundles[top.k])
       IN
       /\ top.at \in {"includes", "optional"}
       /\ IF top.at = "includes" /\ ~walk.skip_optional /\ optional # <<>>
          THEN /\ Len(stack) < MaxDepth
               /\ stack' = Append(with_top(stack, [top EXCEPT !.at = "optional"]),
                                  SubsFrame(optional, top.recursion + 1))
          ELSE stack' = with_top(stack, next_bundle(top))
    /\ UNCHANGED <<mom, spaceVars, disk, side, tracked, disk0, tracked0, pc, req, idx, ret_code,
                   removeVars, installVars, telemetry, ops, walk, sub_ret, reqd_by>>

\* the loop of a level is over: the level returns its bits to its caller
SubsReturn ==
    /\ pc = "subscribing"
    /\ stack # <<>>
    /\ stack[Len(stack)].at = "top"
    /\ stack[Len(stack)].k > Len(stack[Len(stack)].bundles)
    /\ stack' = pop(stack)
    /\ pc' = IF Len(stack) = 1 THEN "subscribed" ELSE pc
    /\ UNCHANGED <<mom, spaceVars, disk, side, tracked, disk0, tracked0, req, idx, ret_code, removeVars,
                   installVars, telemetry, ops, walk, sub_ret, reqd_by>>

NextSubs == SubsCall(WalkSeeds(MaxReq)) \/ SubsVisit \/ SubsOptional \/ SubsReturn

\* MoMs with cycles, an image with or without B, a Subscription Set that is empty or
\* holds A, and a manifest of B that loads or does not
InitSubs ==
    /\ mom \in WalkMoMs
    /\ disk \in {InstalledDisk(mom, {"os-core"}), InstalledDisk(mom, {"os-core", "B"})}
    /\ tracked = {}
    /\ disk0 = disk
    /\ tracked0 = tracked
    /\ broken \in {{}, {"B"}}
    /\ subs \in {<<>>, << "A" >>}
    /\ staged = NothingStaged
    /\ InitIdle

SpecSubs == InitSubs /\ [][NextSubs]_vars

\* every step of the walk that can be taken is taken
SpecSubsLive == SpecSubs /\ WF_vars(NextSubs)

-----------------------------------------------------------------------------
(* required_by, one step at a time *)

\* includes edges of the MoMs the walks run on: a chain from C over B to A, a second way
\* from C to A, and the edge from A to C that closes a cycle
ReqdEdges == {<<"B", "A">>, <<"C", "B">>, <<"C", "A">>, <<"A", "C">>}

\* optional (also-add) edge of these MoMs
ReqdOptional == {<<"B", "A">>}

ReqdMoMs ==
    [edges : SUBSET ReqdEdges, f1 : {[b \in {"A", "B"} |-> "live"]},
     optional : SUBSET ReqdOptional, bare : {{}}]

\* the lists mom->submanifests the walks run on: os-core and any of the other bundles
LoadedLists ==
    {SelectSeq(BundleOrder, LAMBDA x : x \in S \cup {"os-core"}) : S \in SUBSET {"A", "B", "C"}}

\* the lists of exclusions: any of the bundles but os-core
ExclusionLists == {SelectSeq(BundleOrder, LAMBDA x : x \in S) : S \in SUBSET {"A", "B", "C"}}

\* a level of required_by that starts its loop over mom->submanifests
ReqdFrame(bundle_name) == [bundle_name |-> bundle_name, b |-> 1, i |-> 1]

\* the level with its loop moved on to the next manifest of the list
next_manifest(frame) == [frame EXCEPT !.b = @ + 1, !.i = 1]

\* the level with its inner loop moved on to the next name of bundle->includes
next_include(frame) == [frame EXCEPT !.i = @ + 1]

\* a test of the exclusions that finds nothing
list_search_nothing(exclusions, component) == FALSE

\* list_search(exclusions, bundle->component, list_strcmp)
list_search(exclusions, component) == component \in Range(exclusions)

\* a recursive call that keeps the target of its caller
recursion_target_same(component, bundle_name) == bundle_name

\* the target of the recursive call: the bundle that was found to include bundle_name
recursion_target(component, bundle_name) == component

\* a call of required_by at recursion 0 with an empty list *reqd_by
ReqdCall(targets, lists, excls) ==
    /\ pc = "idle"
    /\ \E bundle_name \in targets, loaded \in lists, exclusions \in excls :
          /\ walk' = [fn |-> "required_by", bundle_name |-> bundle_name,
                      exclusions |-> exclusions, count |-> 0]
          /\ submanifests' = loaded
          /\ stack' = << ReqdFrame(bundle_name) >>
    /\ reqd_by' = <<>>
    /\ pc' = "requiring"
    /\ UNCHANGED <<mom, spaceVars, disk, side, tracked, disk0, tracked0, req, force, idx, total, bad,
                   ret_code, reasons, bundles_to_remove, files_to_remove, installVars,
                   telemetry, ops, sub_ret>>

\* the outer loop moves on: the manifest is the one of bundle_name itself, or its
\* includes are exhausted
ReqdNextManifest ==
    /\ pc = "requiring"
    /\ stack # <<>>
    /\ LET top == stack[Len(stack)] IN
       /\ top.b <= Len(submanifests)
       /\ \/ submanifests[top.b] = top.bundle_name
          \/ top.i > Len(ManifestIncludes(mom, submanifests[top.b]))
       /\ stack' = with_top(stack, next_manifest(top))
    /\ UNCHANGED <<mom, spaceVars, disk, side, tracked, disk0, tracked0, pc, req, idx, ret_code,
                   removeVars, installVars, telemetry, ops, walk, sub_ret, reqd_by>>

\* the inner loop looks at one name of bundle->includes: on a match the bundle is added
\* unless it is excluded, and required_by is called on it
ReqdInclude ==
    /\ pc = "requiring"
    /\ stack # <<>>
    /\ LET top == stack[Len(stack)] IN
       /\ top.b <= Len(submanifests)
       /\ submanifests[top.b] # top.bundle_name
       /\ top.i <= Len(ManifestIncludes(mom, submanifests[top.b]))
       /\ LET component == submanifests[top.b]
              name == ManifestIncludes(mom, component)[top.i]
          IN
          IF name = top.bundle_name
          THEN /\ Len(stack) < MaxDepth
               /\ reqd_by' = IF list_search(walk.exclusions, component) THEN reqd_by
                             ELSE Append(reqd_by, component)
               /\ stack' = Append(with_top(stack, next_include(top)),
                                  ReqdFrame(recursion_target(component, top.bundle_name)))
          ELSE /\ stack' = with_top(stack, next_include(top))
               /\ UNCHANGED reqd_by
    /\ UNCHANGED <<mom, spaceVars, disk, side, tracked, disk0, tracked0, pc, req, idx, ret_code,
                   removeVars, installVars, telemetry, ops, walk, sub_ret>>

\* the outer loop of a level is over: the outermost level deduplicates the list and
\* counts it, the others return 0
ReqdReturn ==
    /\ pc = "requiring"
    /\ stack # <<>>
    /\ stack[Len(stack)].b > Len(submanifests)
    /\ stack' = pop(stack)
    /\ IF Len(stack) = 1
       THEN /\ reqd_by' = list_str_deduplicate(reqd_by)
            /\ walk' = [walk EXCEPT !.count = Len(reqd_by')]
            /\ pc' = "required"
       ELSE UNCHANGED <<reqd_by, walk, pc>>
    /\ UNCHANGED <<mom, spaceVars, disk, side, tracked, disk0, tracked0, req, idx, ret_code, removeVars,
                   installVars, telemetry, ops, sub_ret>>

NextReqd ==
    \/ ReqdCall(Bundles, LoadedLists, ExclusionLists)
    \/ ReqdNextManifest
    \/ ReqdInclude
    \/ ReqdReturn

InitReqd ==
    /\ mom \in ReqdMoMs
    /\ disk = InstalledDisk(mom, {"os-core"})
    /\ tracked = {}
    /\ disk0 = disk
    /\ tracked0 = tracked
    /\ broken = {}
    /\ subs = <<>>
    /\ staged = NothingStaged
    /\ InitIdle

SpecReqd == InitReqd /\ [][NextReqd]_vars

\* every step of the walk that can be taken is taken
SpecReqdLive == SpecReqd /\ WF_vars(NextReqd)

-----------------------------------------------------------------------------
(* Properties of install_bundles *)

\* the bits and subscriptions of the request on the target tree the first run found
FirstResolution == add_subscriptions(req, <<>>, mom, disk0, broken, FALSE, FALSE, 0)

\* the plan of the request on the target tree the first run found
FirstPlan ==
    IF "NEW" \in FirstResolution.ret THEN install_plan(mom, disk0, FirstResolution.subs)
    ELSE <<>>

\* the target tree an uninterrupted run without faults leaves: every record of the plan
\* that is not flagged do_not_update is at its final path
ExpectedDisk ==
    LET plan == FirstPlan IN
    [p \in AllPaths |->
        IF \E i \in 1..Len(plan) : plan[i].filename = p /\ ~plan[i].do_not_update
        THEN Content(plan[CHOOSE i \in 1..Len(plan) : plan[i].filename = p])
        ELSE disk0[p]]

NoSidecars == [p \in AllPaths |-> 0]

\* the bundles of the MoM that b includes through one or more edges, and b
IncludesStar(b) ==
    LET tc == TransitiveClosure(IncludeEdges) IN {b} \cup {x \in Bundles : <<b, x>> \in tc}

\* the consolidated file view of the requested bundles and of what they include
RequestedView ==
    consolidate_files_from_bundles(mom,
        SelectSeq(BundleOrder, LAMBDA x : \E b \in Range(req) : x \in IncludesStar(b)))

\* C1: after an install that returns success, every live record of the consolidated
\* view of the requested bundles and their includes (the records flagged do_not_update
\* set aside) is at its final path with the declared content, a directory as a
\* directory, and no sidecar is left over.
C1_SuccessMeansFilesPresent ==
    (pc = "done" /\ ret_code = "OK") =>
        LET view == RequestedView IN
        \A i \in 1..Len(view) :
            (~view[i].is_deleted /\ ~view[i].do_not_update) =>
                /\ disk[view[i].filename] = Content(view[i])
                /\ side[view[i].filename] = 0

\* C4: no record is renamed in Phase B while the staging of a record of the plan is
\* pending: before the first rename call, every record of the plan that is not skipped
\* was staged with success.
C4_StagedBeforeRenamed ==
    \A k \in 1..Len(trace) :
        trace[k].op = "rename" =>
            \A i \in 1..Len(to_install_files) :
                LET f == to_install_files[i].file IN
                (~f.is_deleted /\ ~f.do_not_update) =>
                    \E j \in 1..(k - 1) :
                        trace[j].op = "stage" /\ trace[j].path = f.filename /\ trace[j].ok

\* an install in Phase B whose plan holds a directory and two files or more
C4_Witness ==
    /\ pc = "rename"
    /\ \E k \in 1..Len(trace) : trace[k].op = "rename" /\ ~trace[k].is_dir
    /\ \E k \in 1..Len(trace) : trace[k].op = "stage" /\ trace[k].is_dir
    /\ Cardinality({k \in 1..Len(trace) : trace[k].op = "stage" /\ ~trace[k].is_dir}) > 1

\* C5: when the install was halted between the phases (every record staged, nothing
\* renamed), the run of the same request that completes leaves the target tree an
\* uninterrupted run leaves, with no sidecar left.
C5_RerunAfterHaltBetweenPhases ==
    (pc = "done" /\ halts # <<>> /\ \A k \in 1..Len(halts) : halts[k] = "between") =>
        /\ disk = ExpectedDisk
        /\ side = NoSidecars

\* a completed run after a halt between the phases that left sidecars of two files or
\* more, among them the marker of a bundle
C5_Witness ==
    /\ pc = "done"
    /\ halts # <<>>
    /\ \A k \in 1..Len(halts) : halts[k] = "between"
    /\ Cardinality({p \in AllPaths : disk[p] # disk0[p]}) > 1
    /\ \E b \in Bundles : disk0[MarkerPath(b)] = 0 /\ disk[MarkerPath(b)] # 0
    /\ RenamedSomething

\* C6: when the install was halted after the first rename of Phase B, the files that
\* were renamed stay, and the run of the same request that completes leaves the target
\* tree an uninterrupted run leaves.
C6_RerunAfterHaltInPhaseB ==
    (pc = "done" /\ halts # <<>> /\ \A k \in 1..Len(halts) : halts[k] = "phaseB") =>
        /\ disk = ExpectedDisk
        /\ side = NoSidecars

\* C7: a failed staging or rename is the last call of the install, which goes to the
\* label out with a code other than OK.
C7_MutationFaultAborts ==
    \A k \in 1..Len(trace) :
        ~trace[k].ok =>
            /\ k = Len(trace)
            /\ pc \in {"install_out", "done"}
            /\ ret_code # "OK"

\* every live record of the manifest of b that the loops do not skip is at its final
\* path with the declared content
Reconciled(b) ==
    \A i \in 1..Len(ManifestFiles(mom, b)) :
        LET f == ManifestFiles(mom, b)[i] IN
        (~f.is_deleted /\ ~f.do_not_update) => disk[f.filename] = Content(f)

\* C12: a tracking record changes only after the reconciliation of its bundle: a record
\* that a removal deleted belongs to a bundle whose files were unlinked, and a record
\* that an install created belongs to a bundle whose files are all at their final
\* names.
C12_TrackingAfterReconciliation ==
    /\ \A b \in tracked0 \ tracked : pc = "done" /\ ~is_installed_bundle(disk, b)
    /\ \A b \in tracked \ tracked0 : Reconciled(b)

\* the bundles whose marker the install put into the system bundle directory
InstalledNow == {b \in Bundles : disk0[MarkerPath(b)] = 0 /\ disk[MarkerPath(b)] # 0}

\* C13: after an install, a bundle that the install put on the system has a tracking
\* record exactly when the request names it, also when the tracking directory was
\* empty or missing before: a bundle pulled in as a dependency gets none. (Stated for
\* the installs in which every staging and rename call succeeded.)
C13_TracksRequestedOnly ==
    (pc = "done" /\ \A k \in 1..Len(trace) : trace[k].ok) =>
        \A b \in InstalledNow : (b \in tracked) = (b \in Range(req))

\* C13 as amended: a requested bundle that is installed has a tracking record; when the
\* tracking directory held a record before the install, records are created for
\* bundles of the request only, none for a dependency; when it was empty or missing,
\* every record is one of a bundle of the system bundle directory, and an install
\* whose requested bundles were all new leaves a record for each bundle of that
\* directory, dependencies included.
C13_TracksRequestedUnlessSeeded ==
    pc = "done" =>
        /\ \A b \in Range(req) : is_installed_bundle(disk, b) => b \in tracked
        /\ tracked0 # {} => \A b \in tracked \ tracked0 : b \in Range(req)
        /\ tracked0 = {} => tracked \subseteq system_bundles(disk)
        /\ (/\ tracked0 = {}
            /\ \A b \in Range(req) : ~is_installed_bundle(disk0, b)
            /\ \E b \in Range(req) : b \in InstalledNow)
               => tracked = system_bundles(disk)

\* an install of one bundle on an image with tracking records, which pulled in a
\* dependency: the bundle is tracked, the dependency is not
C13_Witness ==
    /\ pc = "done"
    /\ ret_code = "OK"
    /\ tracked0 # {}
    /\ Len(req) = 1
    /\ req[1] \in InstalledNow
    /\ req[1] \in tracked
    /\ \E b \in InstalledNow : b # req[1] /\ b \notin tracked

\* the operation before the running one
PrevOp == ops[Len(ops) - 1]

\* the running operation is an install that ended and follows an install of the same
\* request that returned OK
SecondInstall ==
    /\ pc = "done"
    /\ Len(ops) > 1
    /\ ops[Len(ops)].op = "install"
    /\ PrevOp.op = "install"
    /\ PrevOp.req = req
    /\ PrevOp.ret = "OK"

\* C14: an install of B that follows an install of B which returned OK subscribes
\* nothing, makes no staging or rename call, leaves the target tree and the sidecars
\* as they were, finds B installed and returns OK.
C14_InstallIdempotent ==
    SecondInstall =>
        /\ subs = <<>>
        /\ to_install_bundles = <<>>
        /\ trace = <<>>
        /\ disk = PrevOp.after
        /\ \A b \in Range(req) : is_installed_bundle(PrevOp.after, b)
        /\ ret_code = "OK"

\* the running operation is an install of B that returned OK and follows a removal
\* that removed B and no other bundle
RemovedThenInstalled ==
    /\ pc = "done"
    /\ ret_code = "OK"
    /\ Len(ops) > 1
    /\ ops[Len(ops)].op = "install"
    /\ PrevOp.op = "remove"
    /\ PrevOp.req = req
    /\ PrevOp.ret = "OK"
    /\ PrevOp.removed = req

\* C19: after the removal of an installed bundle B and an install of B, every path with
\* a live record in the manifest of B exists and holds what it held before the removal,
\* and so does every path of which the manifest of B has no record.
C19_RemoveThenInstallRestores ==
    RemovedThenInstalled =>
        LET files == ManifestFiles(mom, req[1]) IN
        \A p \in AllPaths :
            /\ (\E i \in 1..Len(files) : files[i].filename = p /\ ~files[i].is_deleted)
                  => (disk[p] = PrevOp.before[p] /\ disk[p] # 0)
            /\ (\A i \in 1..Len(files) : files[i].filename # p)
                  => disk[p] = PrevOp.before[p]

\* the names of a request that the MoM lists
ValidNames(request) == SelectSeq(request, search_bundle_in_manifest)

\* the request names a bundle of the MoM and a name the MoM does not list
MixedRequest ==
    /\ \E b \in Range(req) : search_bundle_in_manifest(b)
    /\ \E b \in Range(req) : ~search_bundle_in_manifest(b)

\* the bits and subscriptions of the valid names of the request alone
ValidResolution ==
    add_subscriptions(ValidNames(req), <<>>, mom, disk0, broken, FALSE, FALSE, 0)

\* the target tree after every record of a plan that is not skipped reached its path
PlanDisk(plan) ==
    [p \in AllPaths |->
        IF \E i \in 1..Len(plan) : plan[i].filename = p /\ ~plan[i].do_not_update
        THEN Content(plan[CHOOSE i \in 1..Len(plan) : plan[i].filename = p])
        ELSE disk0[p]]

\* C15: an install whose request mixes names of the MoM with a name the MoM does not
\* list subscribes and plans what the valid names alone give, and when every call
\* succeeded it leaves every valid bundle installed and returns InvalidBundle; the exit
\* code is never OK, and the code of a front-end, admission, download or staging
\* failure is returned as it is.
C15_InvalidNameAmongValid ==
    (pc = "done" /\ MixedRequest) =>
        LET valid == ValidResolution
            plan == install_plan(mom, disk0, valid.subs)
            staging_failed == \E k \in 1..Len(trace) : trace[k].op = "stage" /\ ~trace[k].ok
        IN
        /\ ret_code # "OK"
        /\ subs = valid.subs
        /\ to_install_files # <<>> =>
              [i \in 1..Len(to_install_files) |-> to_install_files[i].file] = plan
        /\ staging_failed => ret_code = "StagingError"
        /\ ("NEW" \in valid.ret /\ to_install_files = <<>>) =>
              ret_code \in InstallEnvCodes \ {"OK"}
        /\ ("NEW" \notin valid.ret) => (ret_code = "InvalidBundle" /\ disk = disk0)
        /\ (to_install_files # <<>> /\ ~staging_failed) => ret_code = "InvalidBundle"
        /\ (to_install_files # <<>> /\ \A k \in 1..Len(trace) : trace[k].ok) =>
              /\ disk = PlanDisk(plan)
              /\ side = NoSidecars
              /\ \A b \in Range(ValidNames(req)) : is_installed_bundle(disk, b)

\* a finished install of a new bundle and an invalid name that changed the target tree
\* and returned InvalidBundle
C15_Witness ==
    /\ pc = "done"
    /\ MixedRequest
    /\ to_install_files # <<>>
    /\ disk # disk0
    /\ ret_code = "InvalidBundle"

\* C16: an install that fails with CurrentVersionUnknown, CouldntLoadMoM or
\* DiskSpaceError leaves the target tree, the sidecars, the staging area and the
\* tracking store as they were before the operation.
C16_EnvFaultBeforeMutation ==
    (pc \in {"done", "aborted"}
        /\ ret_code \in {"CurrentVersionUnknown", "CouldntLoadMoM", "DiskSpaceError"}) =>
        /\ disk = disk0
        /\ side = NoSidecars
        /\ staged = NothingStaged
        /\ tracked = tracked0

\* C17: once the check of the staged files is over, every file record of the plan that
\* is not skipped has its file in the staging area with content that verifies (a file
\* that did not verify was unlinked and fetched again), Phase A copies no other content
\* to a sidecar, and an install that could not remove a corrupt file returns
\* CouldntRemoveFile with nothing staged.
C17_CorruptStagedRefetched ==
    /\ (pc \in {"stage", "rename"}) =>
          \A i \in 1..Len(to_install_files) :
              LET item == to_install_files[i] IN
              (~install_skip(item) /\ ~item.file.is_dir) =>
                  staged[item.file.filename] = item.file.hash
    /\ \A k \in 1..Len(trace) :
          (trace[k].op = "stage" /\ trace[k].ok /\ ~trace[k].is_dir) =>
              \E i \in 1..Len(to_install_files) :
                  /\ to_install_files[i].file.filename = trace[k].path
                  /\ side[trace[k].path] \in {0, to_install_files[i].file.hash}
    /\ (pc \in {"install_out", "done"} /\ ret_code = "CouldntRemoveFile") =>
          (trace = <<>> /\ side = NoSidecars /\ disk = disk0)

\* C18: for every bundle B of the MoM and the manifests remove_bundles loaded, no bundle
\* that required_by(B) returns is B or a bundle that B includes, directly or through
\* other bundles.
C18_RequiredByDisjointFromIncludes ==
    (pc = "remove_loop" /\ idx = 1) =>
        LET tc == TransitiveClosure(IncludeEdges) IN
        \A b \in Bundles :
            \A d \in Range(required_by(mom, b, submanifests, <<>>)) :
                d # b /\ <<b, d>> \notin tc

\* the manifests remove_bundles loaded hold a bundle that includes a bundle other than
\* os-core and is itself included by an installed bundle
C18_Witness ==
    /\ pc = "remove_loop"
    /\ idx = 1
    /\ \E b \in Bundles :
          /\ required_by(mom, b, submanifests, <<>>) # <<>>
          /\ IncludesStar(b) \ {b, "os-core"} # {}

\* the name the running operation reports in its telemetry record
TelemetryName == IF ops[Len(ops)].op = "remove" THEN "bundleremove" ELSE "bundleadd"

\* C20: an operation that got past initialization and returned has emitted exactly one
\* telemetry record, with the name of the operation, the bundle list of the request and
\* the result code it returns.
C20_OneTelemetryRecord ==
    (pc \in {"done", "aborted"} /\ ret_code # "InitError") =>
        /\ Len(telemetry) = 1
        /\ telemetry[1] = Telemetry(TelemetryName, req, ret_code)

\* the records of the plan that are files, are not skipped and carry no staging name
\* after Phase A: those that path-repair staged
RepairedItems ==
    {i \in 1..Len(to_install_files) :
        /\ ~install_skip(to_install_files[i])
        /\ ~to_install_files[i].file.is_dir
        /\ ~to_install_files[i].staging}

ToBeRejected(tc, i) ==
    \/ req[i] = "os-core"
    \/ req[i] \notin Bundles
    \/ disk0[MarkerPath(req[i])] = 0
    \/ (~force /\ DependentsOutside(tc, req[i]) # {})

\* C22: remove_bundles processes every name of the request. A name that is to be
\* rejected is rejected and skipped: its manifest is not moved to the removal list, and
\* when the bundle was installed its files and its tracking record are as before. Every
\* other name of the request is removed whatever was rejected next to it: its manifest
\* is in the removal list, its marker is unlinked and its tracking record is gone.
C22_RejectedSkippedRestRemoved ==
    pc = "done" =>
        LET tc == TransitiveClosure(IncludeEdges) IN
        /\ Len(reasons) = Len(req)
        /\ \A i \in 1..Len(req) :
              LET b == req[i] IN
              IF ToBeRejected(tc, i)
              THEN /\ i \in Rejected
                   /\ b \notin Range(bundles_to_remove)
                   /\ (b \in tracked) = (b \in tracked0)
                   /\ (b \in Bundles /\ disk0[MarkerPath(b)] # 0) =>
                         /\ b \in Range(submanifests)
                         /\ \A p \in AllPaths :
                               LiveIn(b, p) => (~Handed(p) /\ disk[p] = disk0[p])
              ELSE /\ i \notin Rejected
                   /\ b \in Range(bundles_to_remove)
                   /\ b \notin Range(submanifests)
                   /\ disk[MarkerPath(b)] = 0
                   /\ b \notin tracked

\* a finished request of two names of which the first, an installed bundle, was
\* rejected and the second was removed
C22_Witness ==
    /\ pc = "done"
    /\ Len(req) = 2
    /\ reasons[1] # "OK"
    /\ reasons[2] = "OK"
    /\ req[1] \in Bundles
    /\ disk0[MarkerPath(req[1])] # 0
    /\ disk # disk0

-----------------------------------------------------------------------------
(* Properties of add_subscriptions *)

\* C23: at every point of an add_subscriptions walk, whatever the includes and optional
\* graph (cycles, a bundle listing itself, two ways to one bundle), the Subscription Set
\* holds at most one subscription per component, given that it held none twice at the call
C23_OneSubscriptionPerComponent ==
    pc \in {"subscribing", "subscribed"} =>
        \A i, j \in 1..Len(subs) : subs[i] = subs[j] => i = j

\* a finished walk from C over the cycle of A and B, with A subscribed beforehand, that
\* added B and C
C23_Witness ==
    /\ pc = "subscribed"
    /\ walk.subs0 = << "A" >>
    /\ {<<"A", "B">>, <<"B", "A">>, <<"C", "A">>, <<"C", "B">>} \subseteq mom.edges
    /\ walk.bundles[1] = "C"
    /\ {"A", "B", "C"} \subseteq Range(subs)

\* C24: add_subscriptions terminates on every includes and optional graph, cyclic ones
\* and a bundle that lists itself included, also when a seed of the top level is
\* subscribed already; the recursion never gets deeper than one level per bundle below
\* the top level
C24_AddSubscriptionsTerminates ==
    /\ [](Len(stack) <= Cardinality(Bundles) + 1)
    /\ <>(pc = "subscribed")

\* a finished walk whose seed A was subscribed at the call, lists itself and is in a cycle
\* with B, and which added B
C24_Witness ==
    /\ pc = "subscribed"
    /\ walk.subs0 = << "A" >>
    /\ walk.bundles[1] = "A"
    /\ {<<"A", "A">>, <<"A", "B">>, <<"B", "A">>} \subseteq mom.edges
    /\ "NEW" \in sub_ret
    /\ "B" \in Range(subs)

\* the edges a walk follows: includes, and optional unless optional bundles are disabled
FollowedEdges(skip_optional) ==
    {e \in Bundles \X Bundles :
        \/ e[2] \in Range(ManifestIncludes(mom, e[1]))
        \/ ~skip_optional /\ e[2] \in Range(ManifestOptional(mom, e[1]))}

\* the bundles of allowed that are in S or reachable from S over edges E through bundles
\* of allowed only
RECURSIVE ReachableWithin(_, _, _)
ReachableWithin(S, E, allowed) ==
    LET more == S \cup {e[2] : e \in {d \in E : d[1] \in S /\ d[2] \in allowed}}
    IN  IF more = S THEN S ELSE ReachableWithin(more, E, allowed)

\* the bundles a walk may subscribe: all of the MoM, or those that are not installed
Subscribable(find_all) ==
    IF find_all THEN Bundles ELSE {b \in Bundles : ~is_installed_bundle(disk, b)}

\* C25: a walk that started from an empty Subscription Set with every manifest loadable
\* ends with exactly the seeds of the MoM and what is reachable from them over includes
\* (and optional unless disabled) subscribed; with find_all false, exactly what is
\* reachable over bundles that are not installed; and it returns the New bit exactly when
\* it added a subscription
C25_SubscribesClosure ==
    (pc = "subscribed" /\ walk.subs0 = <<>> /\ broken = {}) =>
        /\ Range(subs) = ReachableWithin(Range(walk.bundles) \cap Subscribable(walk.find_all),
                                         FollowedEdges(walk.skip_optional),
                                         Subscribable(walk.find_all))
        /\ ("NEW" \in sub_ret) <=> (subs # <<>>)
        /\ "ERR" \notin sub_ret

\* a finished walk with find_all false from seed C, with B installed and A not: C includes
\* both, B includes A and has C as optional bundle
C25_Witness ==
    /\ pc = "subscribed"
    /\ walk.subs0 = <<>>
    /\ broken = {}
    /\ ~walk.find_all
    /\ ~walk.skip_optional
    /\ walk.bundles = << "C" >>
    /\ is_installed_bundle(disk, "B")
    /\ {<<"C", "A">>, <<"C", "B">>, <<"B", "A">>} \subseteq mom.edges
    /\ mom.optional # {}
    /\ Range(subs) = {"C", "A"}

-----------------------------------------------------------------------------
(* Properties of required_by *)

\* the includes edges of the manifests in mom->submanifests
LoadedEdges ==
    {e \in Bundles \X Bundles :
        e[1] \in Range(submanifests) /\ e[2] \in Range(ManifestIncludes(mom, e[1]))}

\* no bundle of the relation reaches itself: there is no cycle of one, two, three or four
\* bundles
Acyclic(R) ==
    \A a \in Bundles :
        /\ <<a, a>> \notin R
        /\ \A b \in Bundles : <<a, b>> \in R =>
              /\ <<b, a>> \notin R
              /\ \A c \in Bundles : <<b, c>> \in R =>
                    /\ <<c, a>> \notin R
                    /\ \A d \in Bundles : <<c, d>> \in R => <<d, a>> \notin R

\* the includes edges of every manifest of the MoM
MoMEdges == {e \in Bundles \X Bundles : e[2] \in Range(ManifestIncludes(mom, e[1]))}

\* C26: on a MoM with acyclic includes, required_by(T, exclusions) returns exactly the
\* bundles of mom->submanifests that are not excluded and from which T is reached over
\* one or more includes edges of loaded manifests, through excluded bundles as well;
\* each name once, the count being the number of these bundles; optional edges do not
\* count
C26_RequiredByIsDependents ==
    (pc = "required" /\ Acyclic(MoMEdges)) =>
        LET tc == TransitiveClosure(LoadedEdges)
            dependents == {b \in Range(submanifests) \ Range(walk.exclusions) :
                              <<b, walk.bundle_name>> \in tc}
        IN  /\ Range(reqd_by) = dependents
            /\ \A i, j \in 1..Len(reqd_by) : reqd_by[i] = reqd_by[j] => i = j
            /\ walk.count = Cardinality(dependents)

\* a finished walk for A with C, B and A loaded: C includes A directly and over B, B is
\* excluded and has A as optional bundle too; C is returned, once
C26_Witness ==
    /\ pc = "required"
    /\ walk.bundle_name = "A"
    /\ walk.exclusions = << "B" >>
    /\ mom.edges = {<<"B", "A">>, <<"C", "B">>, <<"C", "A">>}
    /\ mom.optional = {<<"B", "A">>}
    /\ {"A", "B", "C"} \subseteq Range(submanifests)
    /\ reqd_by = << "C" >>
    /\ walk.count = 1

\* the loaded bundles from which T is reached over includes edges of loaded manifests
LoadedDependents(T) ==
    LET tc == TransitiveClosure(LoadedEdges)
    IN  {b \in Range(submanifests) : <<b, T>> \in tc}

\* C27: required_by returns for every target when the includes graph of the loaded
\* manifests is acyclic, and is then never more levels deep than there are bundles; it
\* keeps no visited set: it returns only when no dependent of the target is on a cycle
C27_RequiredByTerminates ==
    /\ [](Acyclic(LoadedEdges) => Len(stack) <= Cardinality(Bundles))
    /\ [](pc = "required" =>
            \A b \in LoadedDependents(walk.bundle_name) : b \notin LoadedDependents(b))
    /\ (pc = "requiring" /\ Acyclic(LoadedEdges)) ~> (pc = "required")

\* a finished walk for os-core over the chain from C over B to A, all loaded
C27_Witness ==
    /\ pc = "required"
    /\ walk.bundle_name = "os-core"
    /\ walk.exclusions = <<>>
    /\ mom.edges = {<<"B", "A">>, <<"C", "B">>}
    /\ Range(reqd_by) = {"A", "B", "C"}

-----------------------------------------------------------------------------
(* Properties of the disk space check *)

\* C28: an install that reached the disk space check returns DiskSpaceError exactly when
\* the check is not skipped and the query of the free space failed or 1.1 times the sum
\* of the content sizes of the bundles to install is more than the free space; an install
\* with the check skipped never returns it; and an install that returns it has fetched
\* and staged nothing
C28_DiskSpaceAdmission ==
    (pc # "idle" /\ to_install_bundles # <<>>) =>
        LET bundle_size == get_manifest_list_contentsize(to_install_bundles) IN
        /\ (ret_code = "DiskSpaceError") <=>
              (~skip_diskspace_check /\ (fs_free < 0 \/ 11 * bundle_size > 10 * fs_free))
        /\ (ret_code = "DiskSpaceError") =>
              /\ staged = NothingStaged
              /\ trace = <<>>
              /\ to_install_files = <<>>
              /\ disk = disk0

-----------------------------------------------------------------------------
(* Properties of the two phases *)

\* C29: during an install what is visible at a final path changes only in the renames of
\* Phase B: no step of Phase A changes the content or the type of a final path, so an
\* install halted in Phase A leaves the target tree as it was
C29_OnlyRenamesChangeFinalPaths == [][(disk' # disk) => (pc = "rename")]_vars

-----------------------------------------------------------------------------
(* Removal of a bundle together with its dependents *)

\* every name of the request is an installed bundle other than os-core, and every
\* installed bundle that includes it, directly or through other bundles, is listed too
DependentsListed ==
    LET tc == TransitiveClosure(IncludeEdges) IN
    \A i \in 1..Len(req) :
        /\ req[i] \in Bundles \ {"os-core"}
        /\ disk0[MarkerPath(req[i])] # 0
        /\ DependentsOutside(tc, req[i]) = {}

\* C30: a removal without --force whose list holds, with each bundle, every installed
\* bundle that includes it removes all listed bundles and rejects none, in whatever order
\* they are listed: the bundles kept, the paths handed to the unlinking and the target
\* tree afterwards are those of the list taken in the order of the bundle directory
C30_DependentsListedAnyOrder ==
    (pc = "done" /\ ~force /\ DependentsListed) =>
        LET removed == SelectSeq(BundleOrder, LAMBDA b : b \in Range(req))
            kept == SelectSeq(installed_manifests(disk0), LAMBDA b : b \notin Range(req))
            unlinked == files_to_unlink(mom, removed, kept)
        IN  /\ \A i \in 1..Len(req) : reasons[i] = "OK"
            /\ ret_code = "OK"
            /\ Range(bundles_to_remove) = Range(req)
            /\ Range(submanifests) = Range(kept)
            /\ {files_to_remove[i].filename : i \in 1..Len(files_to_remove)} =
                  {unlinked[i].filename : i \in 1..Len(unlinked)}
            /\ disk = remove_files_from_fs(disk0, unlinked)

\* a finished removal of a bundle and of a bundle that includes it, the included one
\* listed first, with no other installed bundle depending on either
C30_Witness ==
    /\ pc = "done"
    /\ ~force
    /\ DependentsListed
    /\ Len(req) = 2
    /\ <<req[2], req[1]>> \in IncludeEdges
    /\ disk[MarkerPath(req[1])] = 0
    /\ disk[MarkerPath(req[2])] = 0

-----------------------------------------------------------------------------
(* os-core in a removal *)

\* the paths of the files that os-core ships
OsCorePaths ==
    {ManifestFiles(mom, "os-core")[i].filename : i \in 1..Len(ManifestFiles(mom, "os-core"))}

\* C31: whatever the request, with or without --force, and whatever the includes graph,
\* the manifest of os-core stays in the list of kept manifests and is never in the list
\* of bundles to remove, no file of os-core is handed to the unlinking, and the tracking
\* record of os-core stays
C31_OsCoreNeverRemoved ==
    (pc \in {"remove_loop", "done"} /\ disk0[MarkerPath("os-core")] # 0) =>
        /\ "os-core" \in Range(submanifests)
        /\ "os-core" \notin Range(bundles_to_remove)
        /\ \A i \in 1..Len(files_to_remove) : files_to_remove[i].filename \notin OsCorePaths
        /\ ("os-core" \in tracked0) => ("os-core" \in tracked)

-----------------------------------------------------------------------------
(* Manifest load failures in an install *)

\* C32: an install whose resolution of the request met a manifest that does not load
\* returns CouldntLoadManifest and downloads, stages, renames and tracks nothing, also
\* when subscriptions were added before the failing bundle was reached
C32_LoadFailureStopsInstall ==
    (pc # "idle" /\ "ERR" \in FirstResolution.ret) =>
        /\ pc \in {"install_out", "done"}
        /\ ret_code = "CouldntLoadManifest"
        /\ staged = NothingStaged
        /\ trace = <<>>
        /\ disk = disk0
        /\ side = [p \in AllPaths |-> 0]
        /\ tracked = tracked0

=============================================================================
